---- MODULE Spec2Model ----
(***************************************************************************)
(* A model of the text-box library (src/src/lib.rs): the type-state        *)
(* Builder, the TextBox measurement queries and the cached glyph draw.     *)
(*                                                                         *)
(* Numbers.  f32 layout values are modelled by integers.  Every input the  *)
(* model offers (rectangle coordinates, sizes, canvas sizes, paddings,     *)
(* heights) is an even integer of small magnitude, so each `x / 2.0` of    *)
(* the source is exact here exactly as it is in f32, and no f32 sum or     *)
(* difference rounds.  Non-finite values are outside the model.            *)
(***************************************************************************)
EXTENDS Integers, Naturals, Sequences, FiniteSets, TLC

VARIABLES
    builder,      \* the Builder value (its last value once consumed)
    pc,           \* "building" | "built" | "failed": where the fluent chain is
    via,          \* how the Inner state was reached
    canvas_arg,   \* Option<[f32; 2]>: the canvas size given to the Default-state build
    layout,       \* the caller's fontdue Layout
    textbox,      \* Option<TextBox>: <<>> or <<tb>>
    result,       \* result of the last build call
    glyph_cache,  \* HashMap<(GlyphRasterConfig, [u8; 4]), Pixmap>
    lastDraw,     \* record of the most recent draw call
    prevDraw,     \* record of the draw call before it
    shade         \* the per-pixel computation of a cache miss, on its own

vars == <<builder, pc, via, canvas_arg, layout, textbox, result, glyph_cache, lastDraw, prevDraw, shade>>

(***************************************************************************)
(* Bounds of the model.                                                    *)
(***************************************************************************)
MaxFonts == 2   \* longest fallback list
MaxLen   == 3   \* longest text
MaxLines == 2   \* most lines the layout engine reports

(***************************************************************************)
(* Option and Result.                                                      *)
(***************************************************************************)
None == <<>>
Some(v) == <<v>>
IsSome(o) == o /= <<>>
Unwrap(o) == o[1]
Ok(v) == [tag |-> "Ok", val |-> v]
Err(e) == [tag |-> "Err", err |-> e]
IsOk(r) == r.tag = "Ok"
NoResult == [tag |-> "none"]

(***************************************************************************)
(* tiny_skia::Rect, as the library builds it: four edges, valid when       *)
(* left <= right and top <= bottom (zero width or height is allowed).      *)
(***************************************************************************)
from_ltrb(l, t, r, b) ==
    IF l <= r /\ t <= b
    THEN Some([left |-> l, top |-> t, right |-> r, bottom |-> b])
    ELSE None

from_xywh(x, y, w, h) == from_ltrb(x, y, w + x, h + y)

x_of(r) == r.left
y_of(r) == r.top
width(r) == r.right - r.left
height(r) == r.bottom - r.top

inset(r, dx, dy) == from_ltrb(r.left + dx, r.top + dy, r.right - dx, r.bottom - dy)

outset(r, dx, dy) == inset(r, -dx, -dy)

\* x / 2.0 on the even values of the model
Half(v) == v \div 2

(***************************************************************************)
(* Colors.  ColorU8 is <<r, g, b, a>>.  A float Color is modelled with     *)
(* channels in halves (0, 1, 2 for 0.0, 0.5, 1.0).                         *)
(***************************************************************************)
BYTE_MAX == 255

\* tiny_skia Color::to_color_u8: (c * 255.0 + 0.5) as u8 per channel
to_color_u8(f) == [i \in 1..4 |-> (f[i] * BYTE_MAX + 1) \div 2]

ColorU8(c) == [kind |-> "ColorU8", v |-> c]
ColorF(f) == [kind |-> "Color", v |-> f]

into_color_u8(c) == IF c.kind = "Color" THEN to_color_u8(c.v) ELSE c.v

WHITE == <<255, 255, 255, 255>>
RED   == <<255, 0, 0, 255>>
BLUE  == <<0, 0, 255, 255>>

\* colors a caller passes to Builder::color
ColorArgs == {ColorU8(RED), ColorF(<<0, 0, 2, 2>>)}

(***************************************************************************)
(* Fonts.  A font is known by what the library asks of it: has_glyph,      *)
(* lookup_glyph_index, file_hash and the metrics of a glyph.               *)
(***************************************************************************)
Fonts == {"F1", "F2"}
Chars == {"a", "b", " ", "z"}

\* F1 covers "a" and the space, F2 covers "a" and "b"; no font covers "z"
has_glyph(font, c) ==
    \/ font = "F1" /\ c \in {"a", " "}
    \/ font = "F2" /\ c \in {"a", "b"}

\* 0 is the font's .notdef glyph
lookup_glyph_index(font, c) ==
    CASE font = "F1" /\ c = "a" -> 1
      [] font = "F1" /\ c = " " -> 2
      [] font = "F2" /\ c = "a" -> 1
      [] font = "F2" /\ c = "b" -> 2
      [] OTHER -> 0

(***************************************************************************)
(* Builder.                                                                *)
(***************************************************************************)
DEFAULT_SIZE == 24

Haligns == {"Left", "Center", "Right"}
Valigns == {"Top", "Middle", "Bottom"}

DefaultBounds == [state |-> "Default"]
InnerBounds(r) == [state |-> "Inner", rect |-> r]
OuterBounds(r) == [state |-> "Outer", rect |-> r]

new(font, text) ==
    [fonts  |-> <<font>>,
     bounds |-> DefaultBounds,
     color  |-> to_color_u8(<<2, 2, 2, 2>>),
     size   |-> DEFAULT_SIZE,
     halign |-> "Center",
     valign |-> "Middle",
     text   |-> text]

\* bounds_inner pasted from bounds_outer, the marker not changed
bounds_inner_as_outer(self, bounds) ==
    [fonts  |-> self.fonts,
     text   |-> self.text,
     color  |-> self.color,
     size   |-> self.size,
     halign |-> self.halign,
     valign |-> self.valign,
     bounds |-> [state |-> "Outer", rect |-> bounds]]

\* Builder<DefaultBounds>::bounds_inner
bounds_inner(self, bounds) ==
    [fonts  |-> self.fonts,
     text   |-> self.text,
     color  |-> self.color,
     size   |-> self.size,
     halign |-> self.halign,
     valign |-> self.valign,
     bounds |-> InnerBounds(bounds)]

bounds_outer(self, bounds) ==
    [fonts  |-> self.fonts,
     text   |-> self.text,
     color  |-> self.color,
     size   |-> self.size,
     halign |-> self.halign,
     valign |-> self.valign,
     bounds |-> OuterBounds(bounds)]

\* Builder<OuterBounds>::bounds_inner (private: only the Outer-state build calls it)
outer_bounds_inner(self, bounds) ==
    [fonts  |-> self.fonts,
     text   |-> self.text,
     color  |-> self.color,
     size   |-> self.size,
     halign |-> self.halign,
     valign |-> self.valign,
     bounds |-> InnerBounds(bounds)]

fallback_font(self, font) == [self EXCEPT !.fonts = Append(@, font)]

\* a setter that rebuilds the value and forgets the size
color_resetting_size(self, c) ==
    [self EXCEPT !.color = into_color_u8(c), !.size = DEFAULT_SIZE]

color(self, c) == [self EXCEPT !.color = into_color_u8(c)]

size(self, s) == [self EXCEPT !.size = s]

halign(self, h) == [self EXCEPT !.halign = h]

valign(self, v) == [self EXCEPT !.valign = v]

(***************************************************************************)
(* fontdue Layout, as far as the library drives and reads it: the settings *)
(* of the last reset, the styled runs appended since, the glyphs they      *)
(* produced, and the engine's line metrics and total height.  `calls` logs *)
(* the calls made on the layout since the builder was created.             *)
(***************************************************************************)
HUGE_PX == 2^30   \* a font size at which a glyph is too wide to allocate

\* width and height in pixels of a font's glyph at a size (the engine's metrics);
\* F1's outlines are a few font units wide and stay small at any size offered here
BaseMetrics(font, gi) ==
    CASE font = "F1" /\ gi = 1 -> <<2, 1>>
      [] font = "F1" /\ gi = 2 -> <<0, 0>>
      [] font = "F1" /\ gi = 0 -> <<1, 1>>
      [] font = "F2" /\ gi = 1 -> <<1, 2>>
      [] font = "F2" /\ gi = 2 -> <<1, 1>>
      [] OTHER -> <<1, 0>>

Metrics(font, gi, px) ==
    LET b == BaseMetrics(font, gi) IN
    IF px <= 0 THEN <<0, 0>>
    ELSE IF px >= HUGE_PX /\ font = "F2" THEN <<b[1] * (px \div 2), b[2]>>
    ELSE b

\* GlyphRasterConfig { glyph_index, px, font_hash }
GlyphRasterConfig(font, gi, px) == [glyph_index |-> gi, px |-> px, font_hash |-> font]

LayoutSettings(x, y, mw, mh, ha, va) ==
    [x |-> x, y |-> y, max_width |-> Some(mw), max_height |-> Some(mh),
     horizontal_align |-> ha, vertical_align |-> va]

DefaultSettings ==
    [x |-> 0, y |-> 0, max_width |-> None, max_height |-> None,
     horizontal_align |-> "Left", vertical_align |-> "Top"]

TextStyle(text, px, font_index) == [text |-> text, px |-> px, font_index |-> font_index]

NewLayout ==
    [settings |-> DefaultSettings, runs |-> <<>>, glyphs |-> <<>>,
     lines |-> None, height |-> 0, calls |-> <<>>]

\* Layout::reset: new settings, everything laid out so far is dropped
reset(l, settings) ==
    [settings |-> settings, runs |-> <<>>, glyphs |-> <<>>, lines |-> None, height |-> 0,
     calls |-> Append(l.calls, [op |-> "reset", settings |-> settings])]

\* the glyph the engine emits for the i-th character of a run
GlyphOf(l, fonts, style, i) ==
    LET font == fonts[style.font_index + 1]
        gi == lookup_glyph_index(font, style.text[i])
        m == Metrics(font, gi, style.px)
    IN  [font_index |-> style.font_index,
         key |-> GlyphRasterConfig(font, gi, style.px),
         x |-> l.settings.x + 2 * (Len(l.glyphs) + i - 1),
         y |-> l.settings.y,
         width |-> m[1],
         height |-> m[2]]

\* Layout::append: one glyph per character of the run
append(l, fonts, style) ==
    [l EXCEPT !.runs = Append(@, style),
              !.glyphs = @ \o [i \in 1..Len(style.text) |-> GlyphOf(l, fonts, style, i)],
              !.calls = Append(@, [op |-> "append", style |-> style])]

\* the line metrics and height the engine holds once the runs are laid out
measured(l, m) == [l EXCEPT !.lines = m.lines, !.height = m.height]

Paddings == {-8, 0, 6, 40}
Heights == {0, 4, 40}

SeqsUpTo(S, n) == UNION {[1..k -> S] : k \in 1..n}

\* what the engine may report for a layout: no line list (or an empty one) when
\* nothing was laid out, else one to MaxLines lines
Measures(l) ==
    IF l.glyphs = <<>>
    THEN {[lines |-> ls, height |-> h] : ls \in {None, Some(<<>>)}, h \in {0}}
    ELSE {[lines |-> Some(ps), height |-> h] : ps \in SeqsUpTo(Paddings, MaxLines), h \in Heights}

(***************************************************************************)
(* Fallback resolution and the build operations.                           *)
(***************************************************************************)
Min(S) == CHOOSE m \in S : \A n \in S : m <= n
Max(S) == CHOOSE m \in S : \A n \in S : n <= m

\* the last font that has the glyph instead of the first
position_last(fonts, c) ==
    LET hits == {i \in 1..Len(fonts) : has_glyph(fonts[i], c)} IN
    IF hits = {} THEN None ELSE Some(Max(hits) - 1)

\* fonts.iter().position(|font| font.has_glyph(c)), 0-based
position(fonts, c) ==
    LET hits == {i \in 1..Len(fonts) : has_glyph(fonts[i], c)} IN
    IF hits = {} THEN None ELSE Some(Min(hits) - 1)

unwrap_or_default(o) == IF IsSome(o) THEN Unwrap(o) ELSE 0

font_idx_of(fonts, c) == unwrap_or_default(position(fonts, c))

\* itertools chunk_by: consecutive characters with equal key form one group
RECURSIVE chunk_from(_, _, _, _)
chunk_from(fonts, text, i, acc) ==
    IF i > Len(text) THEN acc
    ELSE LET k == font_idx_of(fonts, text[i]) IN
         IF acc /= <<>> /\ acc[Len(acc)][1] = k
         THEN chunk_from(fonts, text, i + 1,
                         [acc EXCEPT ![Len(acc)] = <<k, Append(@[2], text[i])>>])
         ELSE chunk_from(fonts, text, i + 1, Append(acc, <<k, <<text[i]>>>>))

chunk_by(fonts, text) == chunk_from(fonts, text, 1, <<>>)

RECURSIVE append_all(_, _, _, _, _)
append_all(l, fonts, px, chunks, i) ==
    IF i > Len(chunks) THEN l
    ELSE append_all(append(l, fonts, TextStyle(chunks[i][2], px, chunks[i][1])),
                    fonts, px, chunks, i + 1)

\* the layout reset after the runs were fed instead of before
laid_out_reset_last(self, l) ==
    reset(append_all(l, self.fonts, self.size, chunk_by(self.fonts, self.text), 1),
          LayoutSettings(x_of(self.bounds.rect), y_of(self.bounds.rect),
                         width(self.bounds.rect), height(self.bounds.rect),
                         self.halign, self.valign))

\* the layout after Builder<InnerBounds>::build has reset it and fed the runs
laid_out(self, l) ==
    append_all(reset(l, LayoutSettings(x_of(self.bounds.rect), y_of(self.bounds.rect),
                                       width(self.bounds.rect), height(self.bounds.rect),
                                       self.halign, self.valign)),
               self.fonts, self.size, chunk_by(self.fonts, self.text), 1)

\* a TextBox that keeps the primary font only
TextBox_primary_only(self) ==
    [fonts |-> <<self.fonts[1]>>,
     color |-> self.color,
     size |-> self.size,
     halign |-> self.halign,
     valign |-> self.valign,
     inner_bounds |-> self.bounds.rect]

TextBox(self) ==
    [fonts |-> self.fonts,
     color |-> self.color,
     size |-> self.size,
     halign |-> self.halign,
     valign |-> self.valign,
     inner_bounds |-> self.bounds.rect]

\* the margin taken as the whole size
outer_inner_bounds_full_size(self) ==
    LET r == inset(self.bounds.rect, self.size, self.size) IN
    IF IsSome(r) THEN Ok(Unwrap(r)) ELSE Err("Inset")

\* Builder<OuterBounds>::build, up to the call of the Inner-state build
outer_inner_bounds(self) ==
    LET r == inset(self.bounds.rect, Half(self.size), Half(self.size)) IN
    IF IsSome(r) THEN Ok(Unwrap(r)) ELSE Err("Inset")

\* the canvas rectangle taken without the validity check
default_inner_bounds_unchecked(self, canvas) ==
    LET r == inset([left |-> 0, top |-> 0, right |-> canvas[1], bottom |-> canvas[2]],
                   Half(self.size), Half(self.size)) IN
    IF IsSome(r) THEN Ok(Unwrap(r)) ELSE Err("Inset")

\* Builder<DefaultBounds>::build, up to the call of the Inner-state build
default_inner_bounds(self, canvas) ==
    LET full == from_xywh(0, 0, canvas[1], canvas[2]) IN
    IF ~IsSome(full) THEN Err("Rect")
    ELSE LET r == inset(Unwrap(full), Half(self.size), Half(self.size)) IN
         IF IsSome(r) THEN Ok(Unwrap(r)) ELSE Err("Inset")

(***************************************************************************)
(* TextBox measurement.                                                    *)
(***************************************************************************)
\* lines().and_then(|lines| lines.iter().map(|l| inner width - l.padding).max())
\*        .unwrap_or_default()
\* the first line taken for the widest
measured_width_first(self, l) ==
    IF IsSome(l.lines) /\ Unwrap(l.lines) /= <<>>
    THEN LET ls == Unwrap(l.lines) IN width(self.inner_bounds) - ls[1]
    ELSE 0

measured_width(self, l) ==
    IF IsSome(l.lines) /\ Unwrap(l.lines) /= <<>>
    THEN LET ls == Unwrap(l.lines) IN
         Max({width(self.inner_bounds) - ls[i] : i \in 1..Len(ls)})
    ELSE 0

\* the Right/Bottom arms copied from the Center/Middle ones
rect_inner_right_halved(self, l) ==
    LET w == measured_width(self, l)
        h == l.height
        r == from_xywh(
                 x_of(self.inner_bounds) +
                     (CASE self.halign = "Left" -> 0
                        [] self.halign = "Center" -> Half(width(self.inner_bounds) - w)
                        [] self.halign = "Right" -> Half(width(self.inner_bounds) - w)),
                 y_of(self.inner_bounds) +
                     (CASE self.valign = "Top" -> 0
                        [] self.valign = "Middle" -> Half(height(self.inner_bounds) - h)
                        [] self.valign = "Bottom" -> Half(height(self.inner_bounds) - h)),
                 w, h)
    IN  IF IsSome(r) THEN Ok(Unwrap(r)) ELSE Err("Rect")

\* the offsets clamped so that the rectangle never leaves the inner bounds
rect_inner_clamped(self, l) ==
    LET w == measured_width(self, l)
        h == l.height
        r == from_xywh(
                 x_of(self.inner_bounds) +
                     (CASE self.halign = "Left" -> 0
                        [] self.halign = "Center" -> Max({0, Half(width(self.inner_bounds) - w)})
                        [] self.halign = "Right" -> Max({0, width(self.inner_bounds) - w})),
                 y_of(self.inner_bounds) +
                     (CASE self.valign = "Top" -> 0
                        [] self.valign = "Middle" -> Max({0, Half(height(self.inner_bounds) - h)})
                        [] self.valign = "Bottom" -> Max({0, height(self.inner_bounds) - h})),
                 w, h)
    IN  IF IsSome(r) THEN Ok(Unwrap(r)) ELSE Err("Rect")

rect_inner(self, l) ==
    LET w == measured_width(self, l)
        h == l.height
        r == from_xywh(
                 x_of(self.inner_bounds) +
                     (CASE self.halign = "Left" -> 0
                        [] self.halign = "Center" -> Half(width(self.inner_bounds) - w)
                        [] self.halign = "Right" -> width(self.inner_bounds) - w),
                 y_of(self.inner_bounds) +
                     (CASE self.valign = "Top" -> 0
                        [] self.valign = "Middle" -> Half(height(self.inner_bounds) - h)
                        [] self.valign = "Bottom" -> height(self.inner_bounds) - h),
                 w, h)
    IN  IF IsSome(r) THEN Ok(Unwrap(r)) ELSE Err("Rect")

\* the margin taken off instead of added
rect_outer_inset(self, l) ==
    LET ri == rect_inner(self, l) IN
    IF ~IsOk(ri) THEN ri
    ELSE LET r == inset(ri.val, Half(self.size), Half(self.size)) IN
         IF IsSome(r) THEN Ok(Unwrap(r)) ELSE Err("Outset")

\* the margin added at the full size instead of half of it
rect_outer_full_size(self, l) ==
    LET ri == rect_inner(self, l) IN
    IF ~IsOk(ri) THEN ri
    ELSE LET r == outset(ri.val, self.size, self.size) IN
         IF IsSome(r) THEN Ok(Unwrap(r)) ELSE Err("Outset")

rect_outer(self, l) ==
    LET ri == rect_inner(self, l) IN
    IF ~IsOk(ri) THEN ri
    ELSE LET r == outset(ri.val, Half(self.size), Half(self.size)) IN
         IF IsSome(r) THEN Ok(Unwrap(r)) ELSE Err("Outset")

(***************************************************************************)
(* The builder's operations as actions.  A call consumes its receiver: the *)
(* variable `builder` holds the value the chain has reached, and after a   *)
(* build (pc /= "building") the value that build consumed.                 *)
(***************************************************************************)
NoDraw == [called |-> FALSE]
NoShade == [done |-> FALSE]

\* valid Rect values a caller passes to bounds_inner / bounds_outer
RectArgs ==
    {Unwrap(from_xywh(q[1], q[2], q[3], q[4])) :
        q \in {<<0, 0, 4, 4>>, <<0, 0, 24, 24>>, <<2, 4, 32, 28>>, <<-6, 2, 8, 0>>}}

SizeArgs == {-4, 0, 4, DEFAULT_SIZE}

CanvasArgs == {<<32, 28>>, <<24, 24>>, <<4, 8>>, <<0, 8>>, <<8, -2>>}

\* a layout the caller has used before
StaleLayout ==
    measured(append(reset(NewLayout, DefaultSettings) , <<"F2">>,
                    TextStyle(<<"b">>, DEFAULT_SIZE, 0)),
             [lines |-> Some(<<0>>), height |-> 4])

UsedLayout == [StaleLayout EXCEPT !.calls = <<>>]

InitWith(fontArgs, textArgs, layoutArgs) ==
    /\ \E font \in fontArgs, text \in textArgs : builder = new(font, text)
    /\ pc = "building"
    /\ via = "none"
    /\ canvas_arg = None
    /\ layout \in layoutArgs
    /\ textbox = None
    /\ result = NoResult
    /\ glyph_cache = <<>>
    /\ lastDraw = NoDraw
    /\ prevDraw = NoDraw
    /\ shade = NoShade

Chain(b) ==
    /\ pc = "building"
    /\ builder' = b
    /\ UNCHANGED <<pc, canvas_arg, layout, textbox, result, glyph_cache, lastDraw, prevDraw, shade>>

FallbackFont(font) ==
    /\ Len(builder.fonts) < MaxFonts
    /\ Chain(fallback_font(builder, font))
    /\ UNCHANGED via

Color(c) == Chain(color(builder, c)) /\ UNCHANGED via

Size(s) == Chain(size(builder, s)) /\ UNCHANGED via

Halign(h) == Chain(halign(builder, h)) /\ UNCHANGED via

Valign(v) == Chain(valign(builder, v)) /\ UNCHANGED via

\* bounds_inner and bounds_outer are methods of Builder<DefaultBounds> only
BoundsInner(r) ==
    /\ builder.bounds.state = "Default"
    /\ Chain(bounds_inner(builder, r))
    /\ via' = "bounds_inner"

BoundsOuter(r) ==
    /\ builder.bounds.state = "Default"
    /\ Chain(bounds_outer(builder, r))
    /\ UNCHANGED via

\* the Inner-state build on builder value b: reset, one append per run, TextBox
Built(b) ==
    /\ builder' = b
    /\ pc' = "built"
    /\ \E m \in Measures(laid_out(b, layout)) : layout' = measured(laid_out(b, layout), m)
    /\ textbox' = Some(TextBox(b))
    /\ result' = Ok("TextBox")
    /\ UNCHANGED <<glyph_cache, lastDraw, prevDraw, shade>>

Failed(e) ==
    /\ pc' = "failed"
    /\ result' = Err(e)
    /\ UNCHANGED <<builder, via, layout, textbox, glyph_cache, lastDraw, prevDraw, shade>>

BuildInner ==
    /\ pc = "building"
    /\ builder.bounds.state = "Inner"
    /\ Built(builder)
    /\ UNCHANGED <<via, canvas_arg>>

\* the layout reset before the inset is known to exist
BuildOuter_reset_first ==
    /\ pc = "building"
    /\ builder.bounds.state = "Outer"
    /\ LET ib == outer_inner_bounds(builder) IN
       IF IsOk(ib)
       THEN Built(outer_bounds_inner(builder, ib.val)) /\ via' = "outer_build"
       ELSE /\ pc' = "failed"
            /\ result' = Err(ib.err)
            /\ layout' = reset(layout, LayoutSettings(x_of(builder.bounds.rect),
                                                      y_of(builder.bounds.rect),
                                                      width(builder.bounds.rect),
                                                      height(builder.bounds.rect),
                                                      builder.halign, builder.valign))
            /\ UNCHANGED <<builder, via, textbox, glyph_cache, lastDraw, prevDraw, shade>>
    /\ UNCHANGED canvas_arg

BuildOuter ==
    /\ pc = "building"
    /\ builder.bounds.state = "Outer"
    /\ LET ib == outer_inner_bounds(builder) IN
       IF IsOk(ib)
       THEN Built(outer_bounds_inner(builder, ib.val)) /\ via' = "outer_build"
       ELSE Failed(ib.err)
    /\ UNCHANGED canvas_arg

BuildDefault(canvas) ==
    /\ pc = "building"
    /\ builder.bounds.state = "Default"
    /\ LET ib == default_inner_bounds(builder, canvas) IN
       IF IsOk(ib)
       THEN Built(bounds_inner(builder, ib.val)) /\ via' = "default_build"
       ELSE Failed(ib.err)
    /\ canvas_arg' = Some(canvas)

Init == InitWith({"F1"}, {<<>>, <<"a", "b">>}, {NewLayout, UsedLayout})

\* fallback lists are varied under SpecRuns; here the fallback is F2
Next ==
    \/ \E font \in {"F2"} : FallbackFont(font)
    \/ \E c \in ColorArgs : Color(c)
    \/ \E s \in SizeArgs : Size(s)
    \/ \E h \in Haligns : Halign(h)
    \/ \E v \in Valigns : Valign(v)
    \/ \E r \in RectArgs : BoundsInner(r)
    \/ \E r \in RectArgs : BoundsOuter(r)
    \/ BuildInner
    \/ BuildOuter
    \/ \E canvas \in CanvasArgs : BuildDefault(canvas)

Spec == Init /\ [][Next]_vars

(***************************************************************************)
(* Fallback resolution on every text of up to MaxLen characters.           *)
(***************************************************************************)
Texts == {<<>>} \cup SeqsUpTo(Chars, MaxLen)

InitRuns == InitWith(Fonts, Texts, {NewLayout})

NextRuns ==
    \/ \E font \in Fonts : FallbackFont(font)
    \/ BoundsInner(Unwrap(from_xywh(2, 4, 32, 28)))
    \/ BuildInner

SpecRuns == InitRuns /\ [][NextRuns]_vars

(***************************************************************************)
(* draw: the glyph cache and the per-pixel tint of a cache miss.           *)
(***************************************************************************)
U16(v) == v % 65536
U8(v) == v % 256

\* the product taken in 8 bits instead of 16
alpha_of_u8(a, coverage) == U8(U8(a * coverage) \div BYTE_MAX)

\* (u16::from(tint alpha) * u16::from(coverage) / 255) as u8
alpha_of(a, coverage) == U8(U16(U16(a) * U16(coverage)) \div BYTE_MAX)

\* tiny_skia premultiply_u8: c * a / 255, rounded
premultiply_u8(c, a) ==
    LET prod == c * a + 128 IN U8((prod + (prod \div 256)) \div 256)

\* ColorU8::premultiply
premultiply(c) ==
    IF c[4] /= BYTE_MAX
    THEN <<premultiply_u8(c[1], c[4]), premultiply_u8(c[2], c[4]),
           premultiply_u8(c[3], c[4]), c[4]>>
    ELSE c

\* the pixel written for one coverage byte under tint `tint`
pixel_of(tint, coverage) ==
    premultiply(<<tint[1], tint[2], tint[3], alpha_of(tint[4], coverage)>>)

\* Font::rasterize_config: one coverage byte per pixel of the glyph
rasterize_config(font, key) ==
    LET m == Metrics(font, key.glyph_index, key.px) IN
    [j \in 1..(m[1] * m[2]) |-> (key.glyph_index * 77 + j * 128 + 127) % 256]

\* Pixmap::new(width as u32, height as u32): None for a zero side or when a row of
\* 4-byte pixels does not fit an i32.  Glyph sides of the model are below 2^31,
\* where `as u32` changes nothing.
Pixmap_new(w, h) ==
    IF w = 0 \/ h = 0 \/ w > 2147483647 \div 4
    THEN None
    ELSE Some([width |-> w, height |-> h,
               pixels |-> [j \in 1..(w * h) |-> <<0, 0, 0, 0>>]])

\* the zip_eq loop over (coverage, pixel)
tinted(pixmap, data, tint) ==
    [pixmap EXCEPT !.pixels = [j \in 1..Len(data) |-> pixel_of(tint, data[j])]]

\* a key that leaves the tint out
cache_key_untinted(glyph, tint) == <<glyph.key, <<0, 0, 0, 0>>>>

cache_key(glyph, tint) == <<glyph.key, tint>>

\* an insert that drops every other entry
cache_insert_evicting(cache, k, pixmap) == [e \in {k} |-> pixmap]

\* an insert that is forgotten
cache_insert_dropped(cache, k, pixmap) == cache

\* hash_map VacantEntry::insert
cache_insert(cache, k, pixmap) ==
    [e \in DOMAIN cache \cup {k} |-> IF e = k THEN pixmap ELSE cache[e]]

\* canvas.draw_pixmap(0, 0, pixmap, default paint, translate(x, y), None)
draw_pixmap(canvas, glyph, pixmap) ==
    Append(canvas, [x |-> glyph.x, y |-> glyph.y, pixmap |-> pixmap])

\* a glyph taken for drawable as soon as it has a width
non_zero_area_width_only(glyph) == glyph.width > 0

\* the negation of `glyph.width == 0 || glyph.height == 0`
non_zero_area(glyph) == glyph.width > 0 /\ glyph.height > 0

\* one iteration of the loop over layout.glyphs(); st is the state of the call:
\* the cache, what was composited on the canvas, the keys inserted, hit count, result
draw_glyph(self, glyph, st) ==
    IF ~non_zero_area(glyph) THEN st
    ELSE LET k == cache_key(glyph, self.color) IN
         IF k \in DOMAIN st.cache
         THEN [st EXCEPT !.canvas = draw_pixmap(@, glyph, st.cache[k]),
                         !.hits = @ + 1]
         ELSE LET pm == Pixmap_new(glyph.width, glyph.height) IN
              IF ~IsSome(pm) THEN [st EXCEPT !.result = Err("GlyphPixmap")]
              ELSE LET data == rasterize_config(self.fonts[glyph.font_index + 1], glyph.key)
                       glyph_canvas == tinted(Unwrap(pm), data, self.color)
                   IN  [st EXCEPT !.canvas = draw_pixmap(@, glyph, glyph_canvas),
                                  !.cache = cache_insert(@, k, glyph_canvas),
                                  !.inserted = Append(@, k)]

RECURSIVE draw_from(_, _, _, _)
draw_from(self, glyphs, i, st) ==
    IF i > Len(glyphs) \/ ~IsOk(st.result) THEN st
    ELSE draw_from(self, glyphs, i + 1, draw_glyph(self, glyphs[i], st))

\* a draw that undoes its work when a glyph fails
draw_rolled_back(self, l, cache) ==
    LET st == draw_from(self, l.glyphs, 1,
                        [cache |-> cache, canvas |-> <<>>, inserted |-> <<>>, hits |-> 0,
                         result |-> Ok("unit")])
    IN  IF IsOk(st.result) THEN st
        ELSE [st EXCEPT !.cache = cache, !.canvas = <<>>, !.inserted = <<>>]

\* TextBox::draw on a canvas and a cache
draw(self, l, cache) ==
    draw_from(self, l.glyphs, 1,
              [cache |-> cache, canvas |-> <<>>, inserted |-> <<>>, hits |-> 0,
               result |-> Ok("unit")])

\* a TextBox with its layout, as the build operations make it
Box(fonts, text, tint, px) ==
    LET b0 == size(color(new(fonts[1], text), ColorU8(tint)), px)
        b1 == IF Len(fonts) > 1 THEN fallback_font(b0, fonts[2]) ELSE b0
        b == bounds_inner(b1, Unwrap(from_xywh(2, 4, 32, 28)))
    IN  [tb |-> TextBox(b), layout |-> laid_out(b, NewLayout)]

Tints == {RED, BLUE, <<255, 128, 0, 128>>}

DrawBoxes ==
    {Box(<<"F1", "F2">>, <<"a", " ", "b">>, t, DEFAULT_SIZE) : t \in Tints}
        \cup {Box(<<"F1">>, <<"a", "a", "z">>, t, DEFAULT_SIZE) : t \in Tints}
        \cup {Box(<<"F2">>, <<"z", "b">>, t, DEFAULT_SIZE) : t \in Tints}
        \cup {Box(<<"F1", "F2">>, <<"a", "b", "z">>, RED, HUGE_PX)}

Draw(box) ==
    LET r == draw(box.tb, box.layout, glyph_cache) IN
    /\ glyph_cache' = r.cache
    /\ prevDraw' = lastDraw
    /\ lastDraw' = [called |-> TRUE, box |-> box, before |-> glyph_cache,
                    canvas |-> r.canvas, inserted |-> r.inserted, hits |-> r.hits,
                    result |-> r.result]
    /\ UNCHANGED <<builder, pc, via, canvas_arg, layout, textbox, result, shade>>

InitDraw == InitWith({"F1"}, {<<>>}, {NewLayout})

NextDraw == \E box \in DrawBoxes : Draw(box)

SpecDraw == InitDraw /\ [][NextDraw]_vars

(***************************************************************************)
(* The per-pixel computation on every tint alpha and coverage byte.        *)
(***************************************************************************)
Bytes == 0..BYTE_MAX

ShadeRGB == {<<255, 128, 1>>, <<0, 77, 200>>}

Shade ==
    /\ shade.done = FALSE
    /\ shade' = [shade EXCEPT !.done = TRUE,
                              !.pixel = pixel_of(shade.tint, shade.coverage)]
    /\ UNCHANGED <<builder, pc, via, canvas_arg, layout, textbox, result, glyph_cache, lastDraw, prevDraw>>

InitShade ==
    /\ builder = new("F1", <<>>)
    /\ pc = "building"
    /\ via = "none"
    /\ canvas_arg = None
    /\ layout = NewLayout
    /\ textbox = None
    /\ result = NoResult
    /\ glyph_cache = <<>>
    /\ lastDraw = NoDraw
    /\ prevDraw = NoDraw
    /\ \E rgb \in ShadeRGB, a \in Bytes, c \in Bytes :
          shade = [done |-> FALSE, tint |-> <<rgb[1], rgb[2], rgb[3], a>>,
                   coverage |-> c, pixel |-> <<0, 0, 0, 0>>]

NextShade == Shade

SpecShade == InitShade /\ [][NextShade]_vars

(***************************************************************************)
(* Properties of draw and the glyph cache (checked under SpecDraw) and of  *)
(* the per-pixel tint (checked under SpecShade).                           *)
(***************************************************************************)
Range(f) == {f[i] : i \in DOMAIN f}

\* keys of the glyphs draw does not skip
NonZeroKeys(l) ==
    {l.glyphs[i].key : i \in {j \in 1..Len(l.glyphs) :
                                  l.glyphs[j].width > 0 /\ l.glyphs[j].height > 0}}

NonZeroCount(l) ==
    Cardinality({j \in 1..Len(l.glyphs) : l.glyphs[j].width > 0 /\ l.glyphs[j].height > 0})

\* C1: the glyph cache is purely additive: whatever TextBox and tint a draw is
\* called with, and whether it returns Ok or Err, every entry present before the
\* draw is present after it with the identical bitmap.
C1_CacheAdditive ==
    [][\A e \in DOMAIN glyph_cache :
           e \in DOMAIN glyph_cache' /\ glyph_cache'[e] = glyph_cache[e]]_vars

\* a failing draw that found entries of another tint in the cache and added one
C1_Witness ==
    /\ lastDraw.called /\ prevDraw.called
    /\ ~IsOk(lastDraw.result)
    /\ lastDraw.inserted /= <<>>
    /\ DOMAIN lastDraw.before /= {}
    /\ prevDraw.box.tb.color /= lastDraw.box.tb.color

\* C2: drawing the same TextBox twice with the same cache, the first time on an
\* empty cache: the second draw inserts nothing (on success every glyph of
\* non-zero area is a hit) and composites exactly the bitmaps the first draw
\* composited, at the same positions.
C2_SecondDrawPureHits ==
    (/\ lastDraw.called /\ prevDraw.called
     /\ prevDraw.box = lastDraw.box
     /\ DOMAIN prevDraw.before = {})
    => /\ lastDraw.inserted = <<>>
       /\ glyph_cache = lastDraw.before
       /\ lastDraw.canvas = prevDraw.canvas
       /\ IsOk(lastDraw.result) => lastDraw.hits = NonZeroCount(lastDraw.box.layout)

\* the same box drawn twice from an empty cache, with a skipped glyph and two hits
C2_Witness ==
    /\ lastDraw.called /\ prevDraw.called
    /\ prevDraw.box = lastDraw.box
    /\ DOMAIN prevDraw.before = {}
    /\ IsOk(lastDraw.result)
    /\ lastDraw.hits = 2
    /\ Len(lastDraw.box.layout.glyphs) = 3
    /\ Len(lastDraw.canvas) = 2

\* two successful draws in a row of the same glyphs under different tints
RetintedDraw ==
    /\ lastDraw.called /\ prevDraw.called
    /\ IsOk(prevDraw.result) /\ IsOk(lastDraw.result)
    /\ prevDraw.box.layout = lastDraw.box.layout
    /\ prevDraw.box.tb.fonts = lastDraw.box.tb.fonts
    /\ prevDraw.box.tb.color /= lastDraw.box.tb.color

OldTintKept ==
    \A k \in NonZeroKeys(lastDraw.box.layout) :
        LET e == <<k, prevDraw.box.tb.color>> IN
        /\ e \in DOMAIN lastDraw.before
        /\ e \in DOMAIN glyph_cache
        /\ glyph_cache[e] = lastDraw.before[e]

\* C3 as stated: the draw under the second tint inserts one new entry (key, c2)
\* for every distinct key of a glyph of non-zero area, and keeps every (key, c1).
C3_Original ==
    RetintedDraw =>
        /\ Range(lastDraw.inserted) =
               {<<k, lastDraw.box.tb.color>> : k \in NonZeroKeys(lastDraw.box.layout)}
        /\ Len(lastDraw.inserted) = Cardinality(NonZeroKeys(lastDraw.box.layout))
        /\ OldTintKept

\* C3, amended: the draw under the second tint inserts one new entry (key, c2) for
\* every distinct key of a glyph of non-zero area that the cache does not already
\* hold under c2, so that afterwards every such (key, c2) is cached; every
\* (key, c1) entry remains, unchanged.
C3_TintInKey ==
    RetintedDraw =>
        LET want == {<<k, lastDraw.box.tb.color>> : k \in NonZeroKeys(lastDraw.box.layout)} IN
        /\ Range(lastDraw.inserted) = want \ DOMAIN lastDraw.before
        /\ Len(lastDraw.inserted) = Cardinality(want \ DOMAIN lastDraw.before)
        /\ want \subseteq DOMAIN glyph_cache
        /\ OldTintKept

\* a retinted draw that inserted the full set of new entries
C3_Witness ==
    /\ RetintedDraw
    /\ Len(lastDraw.inserted) = 2
    /\ Cardinality(NonZeroKeys(lastDraw.box.layout)) = 2

\* C4: on a cache miss, for every coverage byte c and tint alpha a in 0..255 the
\* pixel's alpha is floor(a * c / 255), the 16-bit product does not overflow and
\* the result fits 8 bits; the RGB channels are the tint's RGB scaled by that
\* alpha over 255, rounded to nearest.
C4_PixelAlpha ==
    shade.done =>
        LET a == shade.tint[4]
            c == shade.coverage
            alpha == (a * c) \div 255
        IN  /\ a * c < 65536
            /\ alpha \in 0..255
            /\ shade.pixel[4] = alpha
            /\ \A i \in 1..3 :
                  LET d == 255 * shade.pixel[i] - shade.tint[i] * alpha IN
                  /\ shade.pixel[i] \in 0..255
                  /\ 2 * d < 255 /\ 2 * d > -255

\* tint alpha 255 and coverage 128 give alpha 128
C4_Witness ==
    /\ shade.done
    /\ shade.tint[4] = 255 /\ shade.coverage = 128
    /\ shade.pixel = <<128, 64, 1, 128>>

(***************************************************************************)
(* Properties of the builder (checked under Spec; C5 under SpecRuns).      *)
(***************************************************************************)
RECURSIVE ConcatTexts(_, _)
ConcatTexts(runs, i) ==
    IF i > Len(runs) THEN <<>> ELSE runs[i].text \o ConcatTexts(runs, i + 1)

\* the font index fallback resolution is to give a character
LowestFontIndex(fonts, c) ==
    IF \E i \in 1..Len(fonts) : has_glyph(fonts[i], c)
    THEN (CHOOSE i \in 1..Len(fonts) :
              has_glyph(fonts[i], c) /\ \A j \in 1..(i - 1) : ~has_glyph(fonts[j], c)) - 1
    ELSE 0

\* C5: for every text and non-empty font list, build feeds the layout engine
\* runs whose concatenation, in order, is the text; every character of a run has
\* the run's font index, which is the lowest index of a font having its glyph,
\* or 0 when no font has it; no run is empty and adjacent runs differ in index.
C5_FallbackRuns ==
    pc = "built" =>
        LET runs == layout.runs IN
        /\ Len(builder.fonts) >= 1
        /\ ConcatTexts(runs, 1) = builder.text
        /\ \A i \in 1..Len(runs) :
              /\ runs[i].text /= <<>>
              /\ \A j \in 1..Len(runs[i].text) :
                    runs[i].font_index = LowestFontIndex(builder.fonts, runs[i].text[j])
        /\ \A i \in 1..(Len(runs) - 1) : runs[i].font_index /= runs[i + 1].font_index

\* "bzb" on [F1, F2]: b falls back to index 1, z to the default 0, and the two
\* b runs stay apart
C5_Witness ==
    /\ pc = "built"
    /\ builder.fonts = <<"F1", "F2">>
    /\ builder.text = <<"b", "z", "b">>
    /\ Len(layout.runs) = 3
    /\ layout.runs[1].font_index = 1
    /\ layout.runs[2].font_index = 0
    /\ layout.runs[3].font_index = 1

\* C6: build from the Outer state with outer rect R and the size s the builder
\* holds when build is called returns Err(Inset) if R.width < s or R.height < s,
\* and otherwise a TextBox whose inner bounds are R shrunk by s/2 on every side.
C6_OuterBuild ==
    [][(pc = "building" /\ builder.bounds.state = "Outer" /\ pc' /= "building") =>
          LET R == builder.bounds.rect
              s == builder.size
          IN  IF width(R) < s \/ height(R) < s
              THEN result' = Err("Inset") /\ textbox' = None
              ELSE /\ IsOk(result')
                   /\ IsSome(textbox')
                   /\ LET ib == Unwrap(textbox').inner_bounds IN
                      /\ 2 * x_of(ib) = 2 * x_of(R) + s
                      /\ 2 * y_of(ib) = 2 * y_of(R) + s
                      /\ width(ib) = width(R) - s
                      /\ height(ib) = height(R) - s]_vars

\* bounds_outer(Rect{0,0,4,4}) with size 24 has failed with Inset
C6_Witness ==
    /\ pc = "failed"
    /\ builder.bounds = OuterBounds(Unwrap(from_xywh(0, 0, 4, 4)))
    /\ builder.size = 24
    /\ result = Err("Inset")

DefaultBuildOk(w, h, s) ==
    /\ IsOk(result)
    /\ IsSome(textbox)
    /\ LET ib == Unwrap(textbox).inner_bounds IN
       /\ 2 * x_of(ib) = s
       /\ 2 * y_of(ib) = s
       /\ width(ib) = w - s
       /\ height(ib) = h - s

\* C7 as stated: build from the Default state fails with Err(Rect) if the canvas
\* width or height is non-positive.
C7_Original ==
    (IsSome(canvas_arg) /\ (Unwrap(canvas_arg)[1] <= 0 \/ Unwrap(canvas_arg)[2] <= 0))
        => result = Err("Rect")

\* C7, amended: build from the Default state with canvas size [w, h] fails with
\* Err(Rect) if w or h is negative; otherwise with Err(Inset) if w or h is less
\* than size; otherwise it builds with inner bounds (size/2, size/2, w-size,
\* h-size).  The Rect check comes before the Inset check.
C7_DefaultBuild ==
    IsSome(canvas_arg) =>
        LET w == Unwrap(canvas_arg)[1]
            h == Unwrap(canvas_arg)[2]
            s == builder.size
        IN  IF w < 0 \/ h < 0 THEN result = Err("Rect") /\ textbox = None
            ELSE IF w < s \/ h < s THEN result = Err("Inset") /\ textbox = None
            ELSE DefaultBuildOk(w, h, s)

\* a canvas that is invalid and also too small for the margin fails with Rect
C7_Witness ==
    /\ canvas_arg = Some(<<8, -2>>)
    /\ builder.size = 24
    /\ result = Err("Rect")

BoundsStep(s, t) ==
    s = t \/ <<s, t>> \in {<<"Default", "Inner">>, <<"Default", "Outer">>, <<"Outer", "Inner">>}

\* C8: the only bounds transitions are Default -> Inner, Default -> Outer and
\* Outer -> Inner; every TextBox comes from a builder in the Inner state, reached
\* through exactly one of bounds_inner, the Outer-state build or the
\* Default-state build, the last always with a canvas size.
C8_BoundsStateMachine ==
    [][/\ BoundsStep(builder.bounds.state, builder'.bounds.state)
       /\ IsSome(textbox') =>
             /\ builder'.bounds.state = "Inner"
             /\ Unwrap(textbox').inner_bounds = builder'.bounds.rect
             /\ via' \in {"bounds_inner", "outer_build", "default_build"}
             /\ (via' = "default_build") = IsSome(canvas_arg')
             /\ (via' = "default_build") = (builder.bounds.state = "Default")
             /\ (via' = "outer_build") = (builder.bounds.state = "Outer")
             /\ (via' = "bounds_inner") = (builder.bounds.state = "Inner")]_vars

\* a TextBox built through the Outer state
C8_Witness ==
    /\ pc = "built"
    /\ IsSome(textbox)
    /\ via = "outer_build"
    /\ builder.bounds.state = "Inner"

\* the value into_color_u8 is to give
ColorValue(c) ==
    IF c.kind = "ColorU8" THEN c.v
    ELSE [i \in 1..4 |-> CASE c.v[i] = 0 -> 0 [] c.v[i] = 1 -> 128 [] c.v[i] = 2 -> 255]

Same(b, c, fields) == \A f \in fields : b[f] = c[f]

BuilderFields == {"fonts", "text", "bounds", "color", "size", "halign", "valign"}

\* C9: color, size, halign and valign are enabled in every bounds state and each
\* replaces its own field only; a bounds transition or a build leaves the style,
\* the fonts and the text as they are; the TextBox carries the builder's values.
C9_SettersFrame ==
    [][/\ pc = "building" =>
             /\ \A c \in ColorArgs : ENABLED Color(c)
             /\ \A s \in SizeArgs : ENABLED Size(s)
             /\ \A h \in Haligns : ENABLED Halign(h)
             /\ \A v \in Valigns : ENABLED Valign(v)
       /\ \A c \in ColorArgs : Color(c) =>
             /\ builder'.color = ColorValue(c)
             /\ Same(builder', builder, BuilderFields \ {"color"})
       /\ \A s \in SizeArgs : Size(s) =>
             /\ builder'.size = s
             /\ Same(builder', builder, BuilderFields \ {"size"})
       /\ \A h \in Haligns : Halign(h) =>
             /\ builder'.halign = h
             /\ Same(builder', builder, BuilderFields \ {"halign"})
       /\ \A v \in Valigns : Valign(v) =>
             /\ builder'.valign = v
             /\ Same(builder', builder, BuilderFields \ {"valign"})
       /\ builder'.bounds /= builder.bounds =>
             Same(builder', builder, BuilderFields \ {"bounds"})
       /\ IsSome(textbox') =>
             Same(Unwrap(textbox'), builder, {"fonts", "color", "size", "halign", "valign"})]_vars

\* a TextBox carrying BLUE and non-default size and alignments, built from Outer
C9_Witness ==
    /\ IsSome(textbox)
    /\ via = "outer_build"
    /\ Unwrap(textbox).color = BLUE
    /\ Unwrap(textbox).size = 4
    /\ Unwrap(textbox).halign = "Left"
    /\ Unwrap(textbox).valign = "Bottom"

\* C10: for every TextBox with size >= 0 whose rect_inner() is Ok(r), rect_outer()
\* is Ok and is r expanded by size/2 on every side, and shrinking that result by
\* size/2 per side gives r back.
C10_OuterExpandsInner ==
    (IsSome(textbox) /\ Unwrap(textbox).size >= 0
        /\ IsOk(rect_inner(Unwrap(textbox), layout))) =>
        LET s == Unwrap(textbox).size
            r == rect_inner(Unwrap(textbox), layout).val
            ro == rect_outer(Unwrap(textbox), layout)
        IN  /\ IsOk(ro)
            /\ 2 * x_of(ro.val) = 2 * x_of(r) - s
            /\ 2 * y_of(ro.val) = 2 * y_of(r) - s
            /\ width(ro.val) = width(r) + s
            /\ height(ro.val) = height(r) + s
            /\ inset(ro.val, Half(s), Half(s)) = Some(r)

\* a measured TextBox of positive size whose inner rect is off the bounds' origin
C10_Witness ==
    /\ IsSome(textbox)
    /\ Unwrap(textbox).size = 4
    /\ IsOk(rect_inner(Unwrap(textbox), layout))
    /\ IsOk(rect_outer(Unwrap(textbox), layout))
    /\ width(rect_inner(Unwrap(textbox), layout).val) > 0
    /\ x_of(rect_inner(Unwrap(textbox), layout).val) /= x_of(Unwrap(textbox).inner_bounds)


(***************************************************************************)
(* Placement of the text rectangle.                                        *)
(***************************************************************************)
\* the share of the leftover b - m an alignment puts in front of the text,
\* doubled so that the centred case needs no division
TwiceShare(align, leftover) ==
    CASE align \in {"Left", "Top"} -> 0
      [] align \in {"Center", "Middle"} -> leftover
      [] align \in {"Right", "Bottom"} -> 2 * leftover

\* C11: the origin of rect_inner() is the inner-bounds origin plus a share of
\* the leftover (inner extent minus measured extent): nothing for Left/Top,
\* half for Center/Middle, all of it for Right/Bottom; x depends on the
\* horizontal alignment only and y on the vertical alignment only.
C11_AlignedOrigin ==
    (pc = "built") =>
        LET tb == Unwrap(textbox)
            ib == tb.inner_bounds
            ri == rect_inner(tb, layout)
        IN  IsOk(ri) =>
              /\ 2 * (x_of(ri.val) - x_of(ib))
                    = TwiceShare(tb.halign, width(ib) - width(ri.val))
              /\ 2 * (y_of(ri.val) - y_of(ib))
                    = TwiceShare(tb.valign, height(ib) - height(ri.val))
              /\ (tb.halign = "Left") => x_of(ri.val) = x_of(ib)
              /\ (tb.valign = "Top") => y_of(ri.val) = y_of(ib)

\* a built box aligned Right and Middle whose text leaves room both ways
C11_Witness ==
    /\ pc = "built"
    /\ Unwrap(textbox).halign = "Right"
    /\ Unwrap(textbox).valign = "Middle"
    /\ LET tb == Unwrap(textbox)
           ri == rect_inner(tb, layout)
       IN  /\ IsOk(ri)
           /\ width(ri.val) > 0
           /\ width(tb.inner_bounds) - width(ri.val) > 0
           /\ height(tb.inner_bounds) - height(ri.val) > 0
           /\ x_of(ri.val) = x_of(tb.inner_bounds) + width(tb.inner_bounds) - width(ri.val)

\* the line list of a layout, empty when the layout reports none
LinesOf(l) == IF IsSome(l.lines) THEN Unwrap(l.lines) ELSE <<>>

\* the widths the lines of a layout are drawn at inside bounds of width b
LineWidths(l, b) == {b - LinesOf(l)[i] : i \in 1..Len(LinesOf(l))}

\* C12: the width of rect_inner() is the largest, over the layout's lines, of
\* inner-bounds width minus line padding, and 0 when the layout has no lines
\* (none reported, or an empty list); its height is the layout's total height.
C12_MeasuredExtent ==
    (pc = "built") =>
        LET tb == Unwrap(textbox)
            ws == LineWidths(layout, width(tb.inner_bounds))
            m == measured_width(tb, layout)
            ri == rect_inner(tb, layout)
        IN  /\ (ws = {}) => m = 0
            /\ (ws /= {}) => (m \in ws /\ \A w \in ws : w <= m)
            /\ IsOk(ri) => (width(ri.val) = m /\ height(ri.val) = layout.height)

\* a built box with two lines, the second the wider, and a positive height
C12_Witness ==
    /\ pc = "built"
    /\ Len(LinesOf(layout)) = 2
    /\ LinesOf(layout)[2] < LinesOf(layout)[1]
    /\ layout.height > 0
    /\ LET ri == rect_inner(Unwrap(textbox), layout) IN
         /\ IsOk(ri)
         /\ width(ri.val) = width(Unwrap(textbox).inner_bounds) - LinesOf(layout)[2]
         /\ width(ri.val) > 0

\* a built box whose layout has no lines measures zero wide
C12_NoLines ==
    /\ pc = "built"
    /\ LinesOf(layout) = <<>>
    /\ IsOk(rect_inner(Unwrap(textbox), layout))
    /\ width(rect_inner(Unwrap(textbox), layout).val) = 0

(***************************************************************************)
(* Failing draws and skipped glyphs.                                       *)
(***************************************************************************)
\* indices, in layout order, of the glyphs of non-zero area before position f
DrawnBefore(gs, f) ==
    SelectSeq([i \in 1..Len(gs) |-> i],
              LAMBDA i : i < f /\ gs[i].width > 0 /\ gs[i].height > 0)

\* C13: a draw that fails with GlyphPixmap is not rolled back: there is a
\* glyph f of non-zero area whose bitmap cannot be allocated such that every
\* non-zero-area glyph before f was composited, in order and from its cached
\* bitmap, and is cached; the
\* key of f, and every key that occurs only at or after f, was not inserted
\* by this call; and nothing at or after f was composited.
C13_FailedDrawKeepsPrefix ==
    (lastDraw.called /\ ~IsOk(lastDraw.result)) =>
        LET gs == lastDraw.box.layout.glyphs
            tint == lastDraw.box.tb.color
        IN  /\ lastDraw.result = Err("GlyphPixmap")
            /\ \E f \in 1..Len(gs) :
                  LET pre == DrawnBefore(gs, f)
                      preKeys == {<<gs[pre[n]].key, tint>> : n \in 1..Len(pre)}
                  IN  /\ gs[f].width > 0 /\ gs[f].height > 0
                      /\ ~IsSome(Pixmap_new(gs[f].width, gs[f].height))
                      /\ Len(lastDraw.canvas) = Len(pre)
                      /\ \A n \in 1..Len(pre) :
                            /\ <<gs[pre[n]].key, tint>> \in DOMAIN glyph_cache
                            /\ lastDraw.canvas[n] =
                                   [x |-> gs[pre[n]].x, y |-> gs[pre[n]].y,
                                    pixmap |-> glyph_cache[<<gs[pre[n]].key, tint>>]]
                      /\ <<gs[f].key, tint>> \notin DOMAIN glyph_cache
                      /\ Range(lastDraw.inserted) \subseteq preKeys
                      /\ \A i \in f..Len(gs) :
                            (<<gs[i].key, tint>> \notin preKeys)
                                => <<gs[i].key, tint>> \notin Range(lastDraw.inserted)
                      /\ DOMAIN glyph_cache = DOMAIN lastDraw.before \cup preKeys

\* a failing draw on an empty cache that composited and cached its first glyph,
\* failed at its second and left a third, of non-zero area, untouched
C13_Witness ==
    /\ lastDraw.called
    /\ lastDraw.result = Err("GlyphPixmap")
    /\ DOMAIN lastDraw.before = {}
    /\ Len(lastDraw.box.layout.glyphs) = 3
    /\ lastDraw.box.layout.glyphs[3].width > 0
    /\ lastDraw.box.layout.glyphs[3].height > 0
    /\ Len(lastDraw.canvas) = 1
    /\ Len(lastDraw.inserted) = 1
    /\ Cardinality(DOMAIN glyph_cache) = 1

\* the glyphs of non-zero area of a layout, as indices in layout order
Drawn(gs) == DrawnBefore(gs, Len(gs) + 1)

\* the rasterization keys of the zero-area glyphs of the boxes drawn
ZeroAreaKeys ==
    UNION {{box.layout.glyphs[i].key :
                i \in {j \in 1..Len(box.layout.glyphs) :
                           box.layout.glyphs[j].width = 0 \/ box.layout.glyphs[j].height = 0}}
           : box \in DrawBoxes}

\* C14: draw skips every glyph of width 0 or height 0: what is composited is
\* a prefix of the non-zero-area glyphs only (all of them on success), every
\* cache lookup (hit or insert) belongs to a composited glyph, a draw whose
\* non-zero-area glyphs can all be allocated returns Ok whatever zero-area
\* glyphs it has, and no cache entry ever has the key of a zero-area glyph.
C14_ZeroAreaSkipped ==
    /\ \A e \in DOMAIN glyph_cache : e[1] \notin ZeroAreaKeys
    /\ lastDraw.called =>
          LET gs == lastDraw.box.layout.glyphs
              nz == Drawn(gs)
          IN  /\ Len(lastDraw.canvas) <= Len(nz)
              /\ \A n \in 1..Len(lastDraw.canvas) :
                    /\ lastDraw.canvas[n].x = gs[nz[n]].x
                    /\ lastDraw.canvas[n].y = gs[nz[n]].y
              /\ lastDraw.hits + Len(lastDraw.inserted) = Len(lastDraw.canvas)
              /\ IsOk(lastDraw.result) => Len(lastDraw.canvas) = Len(nz)
              /\ (\A n \in 1..Len(nz) :
                      IsSome(Pixmap_new(gs[nz[n]].width, gs[nz[n]].height)))
                    => IsOk(lastDraw.result)

\* a successful draw of a box with a glyph of width 1 and height 0, right after
\* a successful draw of a box with a glyph of width 0, both leaving cache entries
C14_Witness ==
    /\ lastDraw.called /\ prevDraw.called
    /\ IsOk(lastDraw.result) /\ IsOk(prevDraw.result)
    /\ \E i \in 1..Len(lastDraw.box.layout.glyphs) :
          /\ lastDraw.box.layout.glyphs[i].width > 0
          /\ lastDraw.box.layout.glyphs[i].height = 0
    /\ \E i \in 1..Len(prevDraw.box.layout.glyphs) :
          prevDraw.box.layout.glyphs[i].width = 0
    /\ lastDraw.inserted /= <<>>
    /\ prevDraw.inserted /= <<>>
    /\ Len(lastDraw.canvas) < Len(lastDraw.box.layout.glyphs)

(***************************************************************************)
(* The calls build makes on the layout engine.                             *)
(***************************************************************************)
\* C15: a successful build calls the layout engine in this order and no other:
\* one reset, with position the inner-bounds origin, maximum width and height
\* the inner-bounds extent and the configured alignments; then one append per
\* resolved run, in run order, with the run's font index and the configured
\* size. No call is made before build, none after, the reset is the first
\* call and the only reset, and the layout holds just the runs appended.
C15_ResetThenAppends ==
    /\ (pc /= "built") => layout.calls = <<>>
    /\ (pc = "built") =>
          LET c == layout.calls
              tb == Unwrap(textbox)
              ib == tb.inner_bounds
          IN  /\ Len(c) >= 1
              /\ c[1] = [op |-> "reset",
                         settings |-> [x |-> x_of(ib), y |-> y_of(ib),
                                       max_width |-> Some(width(ib)),
                                       max_height |-> Some(height(ib)),
                                       horizontal_align |-> tb.halign,
                                       vertical_align |-> tb.valign]]
              /\ \A i \in 2..Len(c) :
                    /\ c[i].op = "append"
                    /\ c[i].style.px = tb.size
                    /\ c[i].style.text /= <<>>
                    /\ \A j \in 1..Len(c[i].style.text) :
                          c[i].style.font_index = LowestFontIndex(tb.fonts, c[i].style.text[j])
              /\ \A i \in 2..(Len(c) - 1) :
                    c[i].style.font_index /= c[i + 1].style.font_index
              /\ layout.runs = [i \in 1..(Len(c) - 1) |-> c[i + 1].style]
              /\ ConcatTexts(layout.runs, 1) = builder.text

\* a build with a non-default size and alignment and bounds away from the
\* origin that fed two runs
C15_Witness ==
    /\ pc = "built"
    /\ Len(layout.calls) = 3
    /\ layout.calls[1].op = "reset"
    /\ layout.calls[1].settings.x /= 0
    /\ layout.calls[1].settings.horizontal_align = "Right"
    /\ layout.calls[2].style.font_index = 0
    /\ layout.calls[3].style.font_index = 1
    /\ layout.calls[3].style.px = 4

(***************************************************************************)
(* Text that does not fit.                                                 *)
(***************************************************************************)
\* the width the lines of a layout measure inside bounds of width b
WidestLine(l, b) ==
    IF LineWidths(l, b) = {} THEN 0
    ELSE CHOOSE m \in LineWidths(l, b) : \A w \in LineWidths(l, b) : w <= m

\* C16: rect_inner() returns Err(Rect) exactly when the measured width or the
\* layout height is negative, and fails in no other way. A negative leftover
\* alone neither fails nor is clamped: when the measured extent is
\* non-negative the result is Ok with the origin moved by the leftover's
\* share, so under Center/Right (Middle/Bottom) text wider (taller) than the
\* inner bounds starts left of (above) them.
C16_OverflowNotClamped ==
    (pc = "built") =>
        LET tb == Unwrap(textbox)
            ib == tb.inner_bounds
            m == WidestLine(layout, width(ib))
            h == layout.height
            ri == rect_inner(tb, layout)
        IN  /\ (ri = Err("Rect")) <=> (m < 0 \/ h < 0)
            /\ IsOk(ri) <=> (m >= 0 /\ h >= 0)
            /\ IsOk(ri) =>
                  /\ 2 * (x_of(ri.val) - x_of(ib)) = TwiceShare(tb.halign, width(ib) - m)
                  /\ 2 * (y_of(ri.val) - y_of(ib)) = TwiceShare(tb.valign, height(ib) - h)
                  /\ (m > width(ib) /\ tb.halign \in {"Center", "Right"})
                        => x_of(ri.val) < x_of(ib)
                  /\ (h > height(ib) /\ tb.valign \in {"Middle", "Bottom"})
                        => y_of(ri.val) < y_of(ib)

\* text wider and taller than the inner bounds, centred and bottom-aligned:
\* the rectangle is returned and starts outside the bounds on both axes
C16_Witness ==
    /\ pc = "built"
    /\ Unwrap(textbox).halign = "Center"
    /\ Unwrap(textbox).valign = "Bottom"
    /\ LET tb == Unwrap(textbox)
           ri == rect_inner(tb, layout)
       IN  /\ IsOk(ri)
           /\ width(ri.val) > width(tb.inner_bounds)
           /\ height(ri.val) > height(tb.inner_bounds)
           /\ x_of(ri.val) < x_of(tb.inner_bounds)
           /\ y_of(ri.val) < y_of(tb.inner_bounds)

\* a negative measured width: rect_inner() fails with Rect
C16_RectError ==
    /\ pc = "built"
    /\ WidestLine(layout, width(Unwrap(textbox).inner_bounds)) < 0
    /\ rect_inner(Unwrap(textbox), layout) = Err("Rect")

(***************************************************************************)
(* Builds that fail.                                                       *)
(***************************************************************************)
\* C17: a build that returns an error (Err(Inset) from the Outer state,
\* Err(Rect) or Err(Inset) from the Default state) makes no call on the layout
\* engine: the layout after the failed build is the layout before it, stale
\* content included, and no TextBox exists.
C17_FailedBuildLeavesLayout ==
    [][(pc' = "failed") =>
          /\ layout' = layout
          /\ layout'.calls = <<>>
          /\ textbox' = None
          /\ result' \in {Err("Inset"), Err("Rect")}
          /\ (builder.bounds.state = "Outer") => result' = Err("Inset")]_vars

\* an Outer build that failed with Inset on a layout holding an earlier text
C17_Witness ==
    /\ pc = "failed"
    /\ builder.bounds.state = "Outer"
    /\ result = Err("Inset")
    /\ layout = UsedLayout
    /\ layout.glyphs /= <<>>
    /\ IsSome(layout.lines)

\* a Default build that failed with Rect on a layout holding an earlier text
C17_DefaultRect ==
    /\ pc = "failed"
    /\ builder.bounds.state = "Default"
    /\ result = Err("Rect")
    /\ layout = UsedLayout

\* a Default build that failed with Inset on a layout holding an earlier text
C17_DefaultInset ==
    /\ pc = "failed"
    /\ builder.bounds.state = "Default"
    /\ result = Err("Inset")
    /\ layout = UsedLayout

(***************************************************************************)
(* Font indices.                                                           *)
(***************************************************************************)
\* every run and glyph of layout l names a font of the list fonts
IndicesWithin(l, fonts) ==
    /\ \A i \in 1..Len(l.runs) :
          l.runs[i].font_index >= 0 /\ l.runs[i].font_index < Len(fonts)
    /\ \A i \in 1..Len(l.glyphs) :
          l.glyphs[i].font_index >= 0 /\ l.glyphs[i].font_index < Len(fonts)

\* C18: every font index attached to a run fed to the layout engine, and so
\* to every glyph the engine returns, is below the length of the font list of
\* the TextBox built, with no, one or more fallback fonts; the lookup of a
\* glyph's font in draw, which reads these glyphs and this list, is therefore
\* never out of range.
C18_FontIndexInRange ==
    (pc = "built") =>
        /\ Len(Unwrap(textbox).fonts) >= 1
        /\ IndicesWithin(layout, Unwrap(textbox).fonts)

\* a box with one fallback font, a glyph resolved to the fallback and a glyph
\* no font has, which falls to index 0
C18_Witness ==
    /\ pc = "built"
    /\ Len(Unwrap(textbox).fonts) = 2
    /\ \E i \in 1..Len(layout.glyphs) : layout.glyphs[i].font_index = 1
    /\ \E i \in 1..Len(layout.glyphs) :
          /\ layout.glyphs[i].font_index = 0
          /\ layout.glyphs[i].key.glyph_index = 0

\* a box with no fallback font whose text has a character the font lacks
C18_NoFallback ==
    /\ pc = "built"
    /\ Len(Unwrap(textbox).fonts) = 1
    /\ \E i \in 1..Len(layout.glyphs) : layout.glyphs[i].key.glyph_index = 0

(***************************************************************************)
(* Text that fits stays inside.                                            *)
(***************************************************************************)
\* rectangle a lies within rectangle b
Within(a, b) ==
    /\ x_of(b) <= x_of(a)
    /\ y_of(b) <= y_of(a)
    /\ x_of(a) + width(a) <= x_of(b) + width(b)
    /\ y_of(a) + height(a) <= y_of(b) + height(b)

\* the measured text of layout l fits inside bounds ib
Fits(l, ib) ==
    /\ 0 <= WidestLine(l, width(ib)) /\ WidestLine(l, width(ib)) <= width(ib)
    /\ 0 <= l.height /\ l.height <= height(ib)

\* C19: for a TextBox built from the Outer state with outer rect R and a size
\* of at least 0, whenever the measured text fits the inner bounds,
\* rect_inner() is Ok and lies within the inner bounds and rect_outer() is Ok
\* and lies within R, under every alignment pair and whichever of size and
\* bounds_outer was called last.
C19_FittingTextStaysInside ==
    [][(/\ pc = "building"
        /\ builder.bounds.state = "Outer"
        /\ pc' = "built"
        /\ builder.size >= 0
        /\ Fits(layout', Unwrap(textbox').inner_bounds))
       => LET tb == Unwrap(textbox')
              ri == rect_inner(tb, layout')
              ro == rect_outer(tb, layout')
          IN  /\ IsOk(ri) /\ Within(ri.val, tb.inner_bounds)
              /\ IsOk(ro) /\ Within(ro.val, builder.bounds.rect)]_vars

\* an Outer build with size 4, aligned Right and Bottom, whose text leaves
\* room both ways: the outer rectangle reaches the right and bottom edges of R
C19_Witness ==
    /\ pc = "built"
    /\ via = "outer_build"
    /\ Unwrap(textbox).size = 4
    /\ Unwrap(textbox).halign = "Right"
    /\ Unwrap(textbox).valign = "Bottom"
    /\ Fits(layout, Unwrap(textbox).inner_bounds)
    /\ LET tb == Unwrap(textbox)
           ri == rect_inner(tb, layout)
           ro == rect_outer(tb, layout)
       IN  /\ IsOk(ri) /\ IsOk(ro)
           /\ 0 < width(ri.val) /\ width(ri.val) < width(tb.inner_bounds)
           /\ 0 < height(ri.val) /\ height(ri.val) < height(tb.inner_bounds)
           /\ x_of(ro.val) + width(ro.val)
                 = x_of(tb.inner_bounds) + width(tb.inner_bounds) + 2
           /\ y_of(ro.val) + height(ro.val)
                 = y_of(tb.inner_bounds) + height(tb.inner_bounds) + 2

====
